---- MODULE Spec2Model ----
(***************************************************************************)
(* The background-process registry and the exec / wait tool handlers of    *)
(* main.py, as coroutines on one cooperative event loop.  Every action is  *)
(* the code a handler runs between two of its await points; the remote     *)
(* platform (sandbox lookup, exec, wait, output reads, snapshots) is the   *)
(* environment.                                                            *)
(***************************************************************************)
EXTENDS Integers, Sequences, FiniteSets, TLC

VARIABLES
    executing_processes,  \* main.py:199, dict process_id -> process handle
    procs,                \* remote processes, indexed by handle
    snapshots,            \* filesystem snapshots taken, indexed by image id:
                          \* the process whose call took it, and whether
                          \* that process had finished by then
    tasks,                \* coroutine slots of the event loop; a slot keeps
                          \* its invocation's outcome until it is reused
    calls,                \* tool invocations dispatched so far
    execs,                \* modal_exec_in_sandbox invocations among them
    issued,               \* history: <<process_id, handle>> per returned launch
    popped                \* history: <<process_id, handle>> per registry pop

vars ==
    <<executing_processes, procs, snapshots, tasks, calls, execs, issued, popped>>

----------------------------------------------------------------------------
(* Bounds of the model *)

MaxCalls == 4        \* tool invocations in a run
MaxExecCalls == 2    \* modal_exec_in_sandbox invocations in a run
MaxInFlight == 2     \* invocations suspended at an await at the same time

----------------------------------------------------------------------------
(* Inputs and values *)

\* Sandbox ids a caller may pass: one the platform knows, one it does not.
SandboxIds == {"sb-1", "sb-gone"}

\* The sandboxes Sandbox.from_id can resolve.
LiveSandboxes == {"sb-1"}

\* process_id arguments of modal_wait_for_process.
ProcessIds == {1, 2}

\* Exit codes of a remote command: success and failure.
ExitCodes == {0, 1}

\* Python None, for a handle, a return code or an image id.
None == 0 - 1

\* What a finished remote command leaves: exit code, stdout, stderr.
Outcomes ==
    {[returncode |-> c, stdout |-> IF c = 0 THEN "hi\n" ELSE "",
      stderr |-> IF c = 0 THEN "" ELSE "err\n"] : c \in ExitCodes}

\* A remote process that was started and has not finished.
Running == [done |-> FALSE, returncode |-> None, stdout |-> "", stderr |-> ""]

\* A tool invocation right after the call, suspended at Sandbox.from_id.
NewTask(op, sandbox_id, process_id, save_image_after_exec) ==
    [op |-> op, sandbox_id |-> sandbox_id, process_id |-> process_id,
     save_image_after_exec |-> save_image_after_exec,
     pc |-> "from_id", p |-> None, image_id |-> None,
     stdout |-> "", ret |-> <<>>, err |-> ""]

\* A slot no invocation has used yet.
Idle == [NewTask("none", "", None, FALSE) EXCEPT !.pc = "idle"]

Slots == 1..MaxInFlight

\* The invocation of slot t has returned or raised, or the slot was never used.
Finished(t) == tasks[t].pc \in {"idle", "done", "failed"}

\* The slot the next invocation runs in.
FreeSlot(t) == Finished(t) /\ \A u \in Slots : u < t => ~Finished(u)

----------------------------------------------------------------------------
(* dict operations on executing_processes *)

\* len(executing_processes), the "+ 1" forgotten
NextProcessIdFromZero(reg) == Cardinality(DOMAIN reg)

\* len(executing_processes) + 1
NextProcessId(reg) == Cardinality(DOMAIN reg) + 1

\* the handle is never put into the dict
StoreNothing(reg, process_id, p) == reg

\* executing_processes[process_id] = p
Store(reg, process_id, p) ==
    [k \in (DOMAIN reg) \cup {process_id} |->
        IF k = process_id THEN p ELSE reg[k]]

\* executing_processes.popitem(): drops the entry inserted last
PopItem(reg, process_id) ==
    [k \in {j \in DOMAIN reg : \E i \in DOMAIN reg : i > j} |-> reg[k]]

\* executing_processes[process_id] read without removing it
PopKeeps(reg, process_id) == reg

\* the dict left by executing_processes.pop(process_id)
Pop(reg, process_id) == [k \in (DOMAIN reg) \ {process_id} |-> reg[k]]

----------------------------------------------------------------------------
(* Remote platform *)

\* Sandbox.from_id succeeds
SandboxFound(sandbox_id) == sandbox_id \in LiveSandboxes

\* p.wait returns only when no earlier process is still running either
ProcessFinishedInOrder(p) == \A q \in 1..p : procs[q].done

\* p.wait returns: the remote command has finished
ProcessFinished(p) == procs[p].done

\* the flag is ignored and a snapshot is always taken
SaveImageAlways(save_image_after_exec) == TRUE

\* if save_image_after_exec
SaveImage(save_image_after_exec) == save_image_after_exec

\* stdout is put where stderr belongs
ExecResultStdoutTwice(p, stdout, stderr, image_id) ==
    <<procs[p].returncode, stdout, stdout, image_id>>

\* the tuple modal_exec_in_sandbox returns
ExecResult(p, stdout, stderr, image_id) ==
    <<procs[p].returncode, stdout, stderr, image_id>>

\* the tuple modal_wait_for_process returns
WaitResult(p, stdout, stderr) == <<procs[p].returncode, stdout, stderr>>

----------------------------------------------------------------------------
Init ==
    /\ executing_processes = <<>>
    /\ procs = <<>>
    /\ snapshots = <<>>
    /\ tasks = [t \in Slots |-> Idle]
    /\ calls = 0
    /\ execs = 0
    /\ issued = <<>>
    /\ popped = <<>>

Fail(t, err) == [tasks EXCEPT ![t].pc = "failed", ![t].err = err]

(* The protocol runtime dispatches a tool call; the handler runs to its    *)
(* first await, Sandbox.from_id.aio(sandbox_id).                           *)
CallExec ==
    /\ calls < MaxCalls /\ execs < MaxExecCalls
    /\ calls' = calls + 1 /\ execs' = execs + 1
    /\ \E t \in Slots :
        /\ FreeSlot(t)
        /\ \E sb \in SandboxIds, save \in BOOLEAN :
            tasks' = [tasks EXCEPT ![t] = NewTask("exec", sb, None, save)]
    /\ UNCHANGED <<executing_processes, procs, snapshots, issued, popped>>

CallBackground ==
    /\ calls < MaxCalls
    /\ calls' = calls + 1
    /\ \E t \in Slots :
        /\ FreeSlot(t)
        /\ \E sb \in SandboxIds :
            tasks' = [tasks EXCEPT ![t] = NewTask("background", sb, None, FALSE)]
    /\ UNCHANGED <<execs, executing_processes, procs, snapshots, issued, popped>>

CallWait ==
    /\ calls < MaxCalls
    /\ calls' = calls + 1
    /\ \E t \in Slots :
        /\ FreeSlot(t)
        /\ \E sb \in SandboxIds, process_id \in ProcessIds :
            tasks' = [tasks EXCEPT ![t] = NewTask("wait", sb, process_id, FALSE)]
    /\ UNCHANGED <<execs, executing_processes, procs, snapshots, issued, popped>>

(* The remote command of process p finishes with some outcome. *)
Terminate(p) ==
    /\ p \in DOMAIN procs
    /\ ~procs[p].done
    /\ \E o \in Outcomes :
        procs' = [procs EXCEPT ![p] =
            [done |-> TRUE, returncode |-> o.returncode,
             stdout |-> o.stdout, stderr |-> o.stderr]]
    /\ UNCHANGED <<execs, calls, executing_processes, snapshots, tasks, issued, popped>>

(* A remote call after the sandbox lookup raises; nothing catches it. *)
RemoteFail(t) ==
    /\ t \in Slots
    /\ tasks[t].pc \in {"exec", "wait", "snapshot", "read_stdout", "read_stderr"}
    /\ tasks' = Fail(t, "RemoteError")
    /\ UNCHANGED <<execs, calls, executing_processes, procs, snapshots, issued, popped>>

(* modal_exec_in_sandbox *)

\* line 189 returns or raises; on success line 190 starts sb.exec
Exec_FromId(t) ==
    /\ t \in Slots
    /\ tasks[t].op = "exec" /\ tasks[t].pc = "from_id"
    /\ tasks' = IF SandboxFound(tasks[t].sandbox_id)
                    THEN [tasks EXCEPT ![t].pc = "exec"]
                    ELSE Fail(t, "NotFoundError")
    /\ UNCHANGED <<execs, calls, executing_processes, procs, snapshots, issued, popped>>

\* line 190 returns the handle; line 191 starts p.wait
Exec_Exec(t) ==
    /\ t \in Slots
    /\ tasks[t].op = "exec" /\ tasks[t].pc = "exec"
    /\ procs' = Append(procs, Running)
    /\ tasks' = [tasks EXCEPT ![t].p = Len(procs) + 1, ![t].pc = "wait"]
    /\ UNCHANGED <<execs, calls, executing_processes, snapshots, issued, popped>>

\* line 191 returns; lines 192-195 pick the snapshot branch
Exec_Wait(t) ==
    /\ t \in Slots
    /\ tasks[t].op = "exec" /\ tasks[t].pc = "wait"
    /\ ProcessFinished(tasks[t].p)
    /\ tasks' = IF SaveImage(tasks[t].save_image_after_exec)
                    THEN [tasks EXCEPT ![t].pc = "snapshot"]
                    ELSE [tasks EXCEPT ![t].image_id = None,
                                       ![t].pc = "read_stdout"]
    /\ UNCHANGED <<execs, calls, executing_processes, procs, snapshots, issued, popped>>

\* line 193 returns the snapshot image; line 197 starts the stdout read
Exec_Snapshot(t) ==
    /\ t \in Slots
    /\ tasks[t].op = "exec" /\ tasks[t].pc = "snapshot"
    /\ snapshots' = Append(snapshots,
            [of |-> tasks[t].p, finished |-> procs[tasks[t].p].done])
    /\ tasks' = [tasks EXCEPT ![t].image_id = Len(snapshots) + 1,
                              ![t].pc = "read_stdout"]
    /\ UNCHANGED <<execs, calls, executing_processes, procs, issued, popped>>

\* line 197: the stdout read returns, the stderr read starts
Exec_ReadStdout(t) ==
    /\ t \in Slots
    /\ tasks[t].op = "exec" /\ tasks[t].pc = "read_stdout"
    /\ tasks' = [tasks EXCEPT ![t].stdout = procs[tasks[t].p].stdout,
                              ![t].pc = "read_stderr"]
    /\ UNCHANGED <<execs, calls, executing_processes, procs, snapshots, issued, popped>>

\* line 197: the stderr read returns, the handler returns its tuple
Exec_ReadStderr(t) ==
    /\ t \in Slots
    /\ tasks[t].op = "exec" /\ tasks[t].pc = "read_stderr"
    /\ tasks' = [tasks EXCEPT
            ![t].ret = ExecResult(tasks[t].p, tasks[t].stdout,
                                  procs[tasks[t].p].stderr, tasks[t].image_id),
            ![t].pc = "done"]
    /\ UNCHANGED <<execs, calls, executing_processes, procs, snapshots, issued, popped>>

(* modal_exec_in_sandbox_background *)

\* line 231 returns or raises; on success line 232 starts sb.exec
Background_FromId(t) ==
    /\ t \in Slots
    /\ tasks[t].op = "background" /\ tasks[t].pc = "from_id"
    /\ tasks' = IF SandboxFound(tasks[t].sandbox_id)
                    THEN [tasks EXCEPT ![t].pc = "exec"]
                    ELSE Fail(t, "NotFoundError")
    /\ UNCHANGED <<execs, calls, executing_processes, procs, snapshots, issued, popped>>

\* line 232 returns the handle; lines 233-235 register it and return the id
Background_Exec(t) ==
    /\ t \in Slots
    /\ tasks[t].op = "background" /\ tasks[t].pc = "exec"
    /\ LET p == Len(procs) + 1
           process_id == NextProcessId(executing_processes)
       IN  /\ procs' = Append(procs, Running)
           /\ executing_processes' = Store(executing_processes, process_id, p)
           /\ tasks' = [tasks EXCEPT ![t].p = p, ![t].ret = <<process_id>>,
                                     ![t].pc = "done"]
           /\ issued' = Append(issued, <<process_id, p>>)
    /\ UNCHANGED <<execs, calls, snapshots, popped>>

(* modal_wait_for_process *)

\* line 243 returns or raises; on success line 244 pops (KeyError when the
\* id is absent) and line 245 starts p.wait
Wait_FromId(t) ==
    /\ t \in Slots
    /\ tasks[t].op = "wait" /\ tasks[t].pc = "from_id"
    /\ LET process_id == tasks[t].process_id
       IN  IF ~SandboxFound(tasks[t].sandbox_id)
             THEN /\ tasks' = Fail(t, "NotFoundError")
                  /\ UNCHANGED <<executing_processes, popped>>
             ELSE IF process_id \notin DOMAIN executing_processes
               THEN /\ tasks' = Fail(t, "KeyError")
                    /\ UNCHANGED <<executing_processes, popped>>
               ELSE /\ tasks' = [tasks EXCEPT
                            ![t].p = executing_processes[process_id],
                            ![t].pc = "wait"]
                    /\ executing_processes' = Pop(executing_processes, process_id)
                    /\ popped' = Append(popped,
                            <<process_id, executing_processes[process_id]>>)
    /\ UNCHANGED <<execs, calls, procs, snapshots, issued>>

\* line 245 returns; line 247 starts the stdout read
Wait_Wait(t) ==
    /\ t \in Slots
    /\ tasks[t].op = "wait" /\ tasks[t].pc = "wait"
    /\ ProcessFinished(tasks[t].p)
    /\ tasks' = [tasks EXCEPT ![t].pc = "read_stdout"]
    /\ UNCHANGED <<execs, calls, executing_processes, procs, snapshots, issued, popped>>

\* line 247: the stdout read returns, the stderr read starts
Wait_ReadStdout(t) ==
    /\ t \in Slots
    /\ tasks[t].op = "wait" /\ tasks[t].pc = "read_stdout"
    /\ tasks' = [tasks EXCEPT ![t].stdout = procs[tasks[t].p].stdout,
                              ![t].pc = "read_stderr"]
    /\ UNCHANGED <<execs, calls, executing_processes, procs, snapshots, issued, popped>>

\* line 247: the stderr read returns, the handler returns its tuple
Wait_ReadStderr(t) ==
    /\ t \in Slots
    /\ tasks[t].op = "wait" /\ tasks[t].pc = "read_stderr"
    /\ tasks' = [tasks EXCEPT
            ![t].ret = WaitResult(tasks[t].p, tasks[t].stdout,
                                  procs[tasks[t].p].stderr),
            ![t].pc = "done"]
    /\ UNCHANGED <<execs, calls, executing_processes, procs, snapshots, issued, popped>>

\* The steps of a background launch or a wait in slot t that the event loop
\* runs once the awaited remote call has completed.
Resume(t) ==
    \/ Background_FromId(t)
    \/ Background_Exec(t)
    \/ Wait_FromId(t)
    \/ Wait_Wait(t)
    \/ Wait_ReadStdout(t)
    \/ Wait_ReadStderr(t)

\* The same for a modal_exec_in_sandbox invocation in slot t.
ResumeExec(t) ==
    \/ Exec_FromId(t)
    \/ Exec_Exec(t)
    \/ Exec_Wait(t)
    \/ Exec_Snapshot(t)
    \/ Exec_ReadStdout(t)
    \/ Exec_ReadStderr(t)

\* The remote platform's own steps.
Platform ==
    \/ \E p \in 1..MaxCalls : Terminate(p)
    \/ \E t \in Slots : RemoteFail(t)

(* The background-process registry: launches and waits, any interleaving. *)
Next ==
    \/ CallBackground
    \/ CallWait
    \/ Platform
    \/ \E t \in Slots : Resume(t)

Spec == Init /\ [][Next]_vars

\* The event loop keeps running: while some coroutine's awaited call has
\* completed, a coroutine is resumed.
FairSpec == Spec /\ WF_vars(\E t \in Slots : Resume(t))

(* The foreground exec handler, which never touches the registry. *)
ExecNext ==
    \/ CallExec
    \/ Platform
    \/ \E t \in Slots : ResumeExec(t)

ExecSpec == Init /\ [][ExecNext]_vars

(* All three handlers on the same event loop. *)
AllNext ==
    \/ Next
    \/ CallExec
    \/ \E t \in Slots : ResumeExec(t)

AllSpec == Init /\ [][AllNext]_vars

----------------------------------------------------------------------------
(* Properties of the background-process registry *)

IssuedIds == {issued[k][1] : k \in DOMAIN issued}

PoppedIds == {popped[k][1] : k \in DOMAIN popped}

PoppedHandles == {popped[k][2] : k \in DOMAIN popped}

RegisteredHandles == {executing_processes[k] : k \in DOMAIN executing_processes}

\* The wait in slot t gets past its sandbox lookup in this step.
WaitLooksUp(t) ==
    /\ tasks[t].op = "wait" /\ tasks[t].pc = "from_id"
    /\ SandboxFound(tasks[t].sandbox_id)
    /\ tasks'[t].pc # "from_id"

\* The wait in slot t holds a process handle.
HoldsHandle(t) == tasks[t].op = "wait" /\ tasks[t].p # None

\* C1: as long as nothing was removed from the registry, the k-th
\* background launch to return has returned the identifier k, so the
\* identifiers returned are 1..N in increasing order.
C1_LaunchesReturnOneToN ==
    popped = <<>> => \A k \in DOMAIN issued : issued[k][1] = k

C1_ThreeLaunches == popped = <<>> /\ Len(issued) = 3

\* C2: no identifier is returned by two background launches, whatever
\* waits ran in between.
C2_IdentifierNeverReused ==
    \A i, j \in DOMAIN issued : i # j => issued[i][1] # issued[j][1]

\* C3: a wait on an identifier no launch has returned, or that an earlier
\* wait has consumed, fails with KeyError and leaves the registry as it was.
C3_UnknownOrConsumedFails ==
    [][\A t \in Slots :
        (/\ WaitLooksUp(t)
         /\ \/ tasks[t].process_id \notin IssuedIds
            \/ tasks[t].process_id \in PoppedIds)
        => /\ tasks'[t].pc = "failed"
           /\ tasks'[t].err = "KeyError"
           /\ executing_processes' = executing_processes]_vars

\* The step in which a wait pops: exactly its entry goes, the rest stays,
\* and the wait holds the handle that was stored under its identifier.
C4_PopStep ==
    \A t \in Slots :
        (WaitLooksUp(t) /\ tasks[t].process_id \in DOMAIN executing_processes)
        => /\ DOMAIN executing_processes' =
                (DOMAIN executing_processes) \ {tasks[t].process_id}
           /\ \A k \in DOMAIN executing_processes' :
                executing_processes'[k] = executing_processes[k]
           /\ tasks'[t].p = executing_processes[tasks[t].process_id]
           /\ popped' = Append(popped, <<tasks[t].process_id, tasks'[t].p>>)

\* A wait holds only a handle it popped under its own identifier and returns
\* that handle's outcome; every popped pair was issued, no handle pops twice.
C4_Returned ==
    /\ \A t \in Slots :
        HoldsHandle(t) =>
            /\ \E k \in DOMAIN popped :
                popped[k] = <<tasks[t].process_id, tasks[t].p>>
            /\ tasks[t].pc = "done" =>
                tasks[t].ret = <<procs[tasks[t].p].returncode,
                                 procs[tasks[t].p].stdout,
                                 procs[tasks[t].p].stderr>>
    /\ \A k \in DOMAIN popped :
        /\ \E i \in DOMAIN issued : issued[i] = popped[k]
        /\ \A j \in DOMAIN popped : j # k => popped[j][2] # popped[k][2]

\* C4: a wait on an identifier present in the registry removes that entry
\* and no other, keeps every other entry's handle, and what it returns is
\* the exit code, stdout and stderr of the handle that was stored under the
\* identifier; a handle is stored by one launch and handed out at most once.
C4_WaitTakesItsEntry == [][C4_PopStep]_vars /\ []C4_Returned

\* A wait on 1 returned process 1's result while entry 2 stayed registered.
C4_WaitReturnedOthersKept ==
    \E t \in Slots :
        /\ tasks[t].op = "wait" /\ tasks[t].pc = "done"
        /\ tasks[t].process_id = 1
        /\ procs[tasks[t].p].returncode = 1
        /\ 2 \in DOMAIN executing_processes

\* C8: every handle a launch has registered and no wait has taken is still
\* in the registry under the identifier returned for it.
C8_NoHandleOverwritten ==
    \A k \in DOMAIN issued :
        issued[k][2] \notin PoppedHandles
        => /\ issued[k][1] \in DOMAIN executing_processes
           /\ executing_processes[issued[k][1]] = issued[k][2]

\* C9: with no removal from the registry, launches that interleave at their
\* await points get pairwise different identifiers; a launch holds no handle
\* and no identifier while it is suspended, and every registered handle is
\* one that sb.exec has returned.
C9_ConcurrentLaunchesDistinct ==
    /\ \A t \in Slots :
        (tasks[t].op = "background" /\ tasks[t].pc # "done")
        => tasks[t].p = None /\ tasks[t].ret = <<>>
    /\ popped = <<>> =>
        /\ \A i, j \in DOMAIN issued : i # j => issued[i][1] # issued[j][1]
        /\ DOMAIN executing_processes = IssuedIds
        /\ \A k \in DOMAIN issued :
            /\ issued[k][2] \in DOMAIN procs
            /\ executing_processes[issued[k][1]] = issued[k][2]

\* Two launches were in flight together and both have returned.
C9_TwoConcurrentLaunchesDone ==
    /\ calls = 2 /\ popped = <<>>
    /\ \A t \in {1, 2} : tasks[t].op = "background" /\ tasks[t].pc = "done"

\* A handle a wait holds is out of the registry and held by that wait alone;
\* a wait without a handle has not got past its lookup and pop.
C10_State ==
    /\ \A t \in Slots : HoldsHandle(t) => tasks[t].p \notin RegisteredHandles
    /\ \A t, u \in Slots :
        (t # u /\ HoldsHandle(t) /\ HoldsHandle(u)) => tasks[t].p # tasks[u].p
    /\ \A t \in Slots :
        (tasks[t].op = "wait" /\ tasks[t].p = None)
        => tasks[t].pc \in {"from_id", "failed"}

\* A failing wait leaves the registry as it is: NotFoundError comes from the
\* lookup alone, before the pop; a later failure is a remote one.
C10_Step ==
    \A t \in Slots :
        (tasks[t].op = "wait" /\ ~Finished(t) /\ tasks'[t].pc = "failed")
        => /\ executing_processes' = executing_processes
           /\ tasks'[t].err = "NotFoundError" =>
                /\ tasks[t].pc = "from_id"
                /\ ~SandboxFound(tasks[t].sandbox_id)
           /\ tasks[t].pc # "from_id" => tasks'[t].err = "RemoteError"

----------------------------------------------------------------------------
(* Properties of the foreground exec handler *)

\* C5: an exec call with save_image_after_exec false holds and returns None
\* as image id and no snapshot is ever taken for it; with the flag true it
\* returns the id of a snapshot taken for this call; every snapshot is taken
\* after the call's remote command has finished.
C5_SnapshotFollowsFlag ==
    /\ \A k \in DOMAIN snapshots : snapshots[k].finished
    /\ \A t \in Slots :
        tasks[t].op = "exec" =>
            IF tasks[t].save_image_after_exec
              THEN tasks[t].pc = "done" =>
                    /\ tasks[t].ret[4] # None
                    /\ tasks[t].ret[4] \in DOMAIN snapshots
                    /\ snapshots[tasks[t].ret[4]].of = tasks[t].p
              ELSE /\ tasks[t].image_id = None
                   /\ \A k \in DOMAIN snapshots : snapshots[k].of # tasks[t].p
                   /\ tasks[t].pc = "done" => tasks[t].ret[4] = None

\* One exec call returned with a snapshot id, another returned without one.
C5_BothFlagsReturned ==
    \E t, u \in Slots :
        /\ tasks[t].op = "exec" /\ tasks[t].pc = "done"
        /\ tasks[t].save_image_after_exec
        /\ tasks[u].op = "exec" /\ tasks[u].pc = "done"
        /\ ~tasks[u].save_image_after_exec

\* C6: an exec or wait call that returns hands back the exit code, stdout
\* and stderr of its finished process, whatever the exit code; a call fails
\* only through a failed sandbox lookup, an unknown process id or a remote
\* call that raised, never because of the exit code.
C6_ExitCodeIsData ==
    \A t \in Slots :
        tasks[t].op \in {"exec", "wait"} =>
            /\ tasks[t].pc = "done" =>
                /\ procs[tasks[t].p].done
                /\ tasks[t].ret[1] = procs[tasks[t].p].returncode
                /\ tasks[t].ret[2] = procs[tasks[t].p].stdout
                /\ tasks[t].ret[3] = procs[tasks[t].p].stderr
            /\ tasks[t].pc = "failed" =>
                tasks[t].err \in {"NotFoundError", "KeyError", "RemoteError"}

\* An exec call and a wait call have both returned a non-zero exit code.
C6_NonZeroReturned ==
    \E t, u \in Slots :
        /\ tasks[t].op = "exec" /\ tasks[t].pc = "done"
        /\ tasks[t].ret[1] = 1 /\ tasks[t].ret[3] = "err\n"
        /\ tasks[u].op = "wait" /\ tasks[u].pc = "done"
        /\ tasks[u].ret[1] = 1 /\ tasks[u].ret[3] = "err\n"

====
